---- MODULE Spec2Model ----
(***************************************************************************)
(* Fermax Cloud integration: the session client (api.py, FermaxClient),    *)
(* its retry helper, and the refresh coordinator (coordinator.py).         *)
(*                                                                         *)
(* Coroutines run on one asyncio event loop: a step of the model is the    *)
(* code a coroutine runs between two suspension points (an HTTP request in *)
(* flight, a wait for the token lock, a sleep).                            *)
(***************************************************************************)
EXTENDS Integers, Sequences, FiniteSets, TLC

(***************************************************************************)
(* Bounds of the model.                                                    *)
(***************************************************************************)
NumCallers == 2        \* coroutines that call the client concurrently
MaxCycles == 3         \* refresh cycles the coordinator runs

(***************************************************************************)
(* Program constants.                                                      *)
(***************************************************************************)
MAX_RETRIES == 3             \* const.py:87
INITIAL_RETRY_DELAY == 1     \* const.py:88 (1.0 s)
TokenMargin == 60            \* api.py:122, api.py:175 ("60s buffer")
DefaultExpiresIn == 3600     \* api.py:121, api.py:174 (data.get default)

(***************************************************************************)
(* Values drawn by the environment (the cloud service and the clock).      *)
(***************************************************************************)
Procs == 1..NumCallers
NoProc == 0
NoToken == 0                        \* None
Tokens == {1, 2}                    \* opaque access-token strings
RefreshTokens == {1}                \* opaque refresh-token strings
Absent == -1                        \* a key the response JSON does not carry
Lifetimes == {60, 3600}             \* expires_in values the server reports
Instants == {0, 3539, 3540}         \* readings of time.time()

\* Outcome of an HTTP exchange with the token endpoint.
TokenStatus == {"ok200", "rejected403", "client_error", "timeout"}
\* Outcome of an HTTP exchange with an API endpoint.
ApiStatus == {"ok200", "unauthorized401", "error500", "client_error", "timeout"}

\* JSON bodies of a 200 answer of the token endpoint.
TokenData ==
    [access_token : Tokens, refresh_token : RefreshTokens \cup {Absent},
     expires_in : Lifetimes \cup {Absent}]

ApiOps == {"get_pairings", "get_device", "get_services", "get_user_info", "open_door"}
ClientOps == {"ensure", "login", "refresh"} \cup ApiOps

VARIABLES
    access_token,    \* FermaxClient._access_token
    refresh_token,   \* FermaxClient._refresh_token
    expires_at,      \* FermaxClient._expires_at
    now,             \* time.time()
    lock,            \* FermaxClient._token_lock: the coroutine inside, or NoProc
    lockq,           \* coroutines suspended in _token_lock.acquire(), in order
    proc             \* per coroutine: the client operation it runs and where it is

clientVars == <<access_token, refresh_token, expires_at, now, lock, lockq, proc>>

\* One call of FermaxClient._retry_with_backoff(func) (api.py:187-205).
VARIABLES
    script,          \* what func does on its 1st, 2nd, ... invocation
    r_pc,            \* where the call is: idle, calling, sleeping, returned, raised
    attempt,         \* the loop variable of api.py:191
    r_calls,         \* invocations of func so far
    sleeps,          \* the delays slept so far, in order
    r_result         \* what the call returned or raised

retryVars == <<script, r_pc, attempt, r_calls, sleeps, r_result>>

\* FermaxDataUpdateCoordinator (coordinator.py) and its refresh cycle.
VARIABLES
    devices,         \* FermaxDataUpdateCoordinator._devices: device id -> entry
    coord_data,      \* DataUpdateCoordinator.data: what the last successful cycle returned
    phase,           \* where the refresh cycle is
    cycle,           \* the number of the running (or last) cycle
    pairings,        \* the cycle's local "pairings" (coordinator.py:39)
    tasks,           \* the cycle's _update_device tasks, in the order of device_ids
    cycle_error      \* the message of the UpdateFailed the last cycle raised, or "none"

coordVars == <<devices, coord_data, phase, cycle, pairings, tasks, cycle_error>>

\* One call of FermaxDataUpdateCoordinator.async_open_door (coordinator.py:112-144).
VARIABLES
    door             \* where the call is, what it sent and how it ended

\* One call of async_setup_entry (__init__.py:28-81).
VARIABLES
    setup            \* where the call is, whether it created the coordinator, how it ended

vars == <<clientVars, retryVars, coordVars, door, setup>>

(***************************************************************************)
(* A coroutine's record.  op: the client operation called; pc: where it is *)
(* suspended; via: who called async_refresh_token/async_login ("ensure" =  *)
(* _ensure_token under the lock, "retry" = the 401 branch of an API method,*)
(* "top" = the caller of the client); hdr: the bearer token of its headers;*)
(* result: what the operation returned or raised.                          *)
(* History of the call, for the properties: nApi, the API requests sent;   *)
(* nRefresh, the calls of async_refresh_token by the method's 401 branch;  *)
(* nLogin and nGrant, the password-grant and refresh-grant requests sent   *)
(* by the pending (or last) call of async_refresh_token/async_login;       *)
(* stored, the expiry a bare _ensure_token call stored; waited, the        *)
(* coroutine was suspended on the lock.                                    *)
(***************************************************************************)
IdleProc ==
    [op |-> "none", pc |-> "idle", via |-> "top", hdr |-> NoToken, result |-> "none",
     nApi |-> 0, nRefresh |-> 0, nLogin |-> 0, nGrant |-> 0,
     waited |-> FALSE, stored |-> Absent]

TokenWait == {"login_wait", "refresh_wait"}

\* api.py:121 int(data.get("expires_in", 3600))
ExpiresIn(data) ==
    IF data.expires_in = Absent THEN DefaultExpiresIn ELSE data.expires_in

\* A faulty variant of ExpiresAt: the expiry is stored without the 60 s margin.
ExpiresAtNoMargin(t, e) == t + e

\* api.py:122 and api.py:175: time.time() + expires_in - 60
ExpiresAt(t, e) == t + e - TokenMargin

\* A faulty variant of TokenValid: the expiry instant itself still counts as valid.
TokenValidInclusive == access_token # NoToken /\ now <= expires_at

\* api.py:183, negated: the token needs no refresh
TokenValid == access_token # NoToken /\ now < expires_at

(***************************************************************************)
(* Session client: calls between suspension points.                        *)
(***************************************************************************)
\* The operation is over: it returned or raised res; its headers are gone.
Done(st, res) == [st EXCEPT !.pc = "done", !.result = res, !.hdr = NoToken]

\* api.py:80-104: async_login posts the password grant and suspends.
CallLogin(st) == [st EXCEPT !.pc = "login_wait", !.nLogin = @ + 1]

\* api.py:127-154: async_refresh_token delegates to async_login when no refresh
\* token is held, else posts the refresh grant and suspends.
CallRefresh(st, from) ==
    LET call == [st EXCEPT !.via = from, !.nLogin = 0, !.nGrant = 0, !.stored = Absent,
                           !.nRefresh = IF from = "retry" THEN @ + 1 ELSE @]
    IN  IF refresh_token = NoToken
        THEN CallLogin(call)
        ELSE [call EXCEPT !.pc = "refresh_wait", !.nGrant = @ + 1]

\* The except clause that ends each API method: what a ClientError becomes.
\* api.py:241-243, 276-280, 347-349 raise FermaxConnectionError; api.py:312-314
\* returns []; api.py:401-403 raises FermaxAPIError.
WrapClientError(o) ==
    CASE o = "get_services" -> "empty_list"
      [] o = "open_door" -> "FermaxAPIError"
      [] OTHER -> "FermaxConnectionError"

\* After _ensure_token returned: the method builds its headers from the token
\* held at that moment and sends its request (api.py:209-224, 247-262, ...);
\* a bare _ensure_token call is over.
AfterEnsure(st, tok) ==
    IF st.op = "ensure"
    THEN Done(st, "ok")
    ELSE [IdleProc EXCEPT !.op = st.op, !.pc = "api_wait", !.hdr = tok, !.nApi = 1]

\* A faulty variant of SendRetry: the request is sent again with the headers it had.
SendRetryStaleHeader(st, tok) ==
    [IdleProc EXCEPT !.op = st.op, !.pc = "retry_wait", !.hdr = st.hdr,
                     !.nApi = st.nApi + 1, !.nRefresh = st.nRefresh]

\* api.py:265-269: after async_refresh_token returned in the 401 branch, the
\* Authorization header is rebuilt from the token now held and the request is
\* sent once more.
SendRetry(st, tok) ==
    [IdleProc EXCEPT !.op = st.op, !.pc = "retry_wait", !.hdr = tok,
                     !.nApi = st.nApi + 1, !.nRefresh = st.nRefresh]

\* A faulty variant of EnsureCheck: the lock is left before the refresh is awaited.
EnsureCheckUnlocked(st, p) ==
    IF TokenValid
    THEN [st |-> AfterEnsure(st, access_token), lock |-> NoProc]
    ELSE [st |-> CallRefresh(st, "ensure"), lock |-> NoProc]

\* api.py:182-185: inside the lock, refresh when the token is missing or expired.
\* Gives the coroutine's next record and the lock's next holder.
EnsureCheck(st, p) ==
    IF TokenValid
    THEN [st |-> AfterEnsure(st, access_token), lock |-> NoProc]
    ELSE [st |-> CallRefresh(st, "ensure"), lock |-> p]

\* async_refresh_token/async_login returned or raised res to its caller; tok is
\* the access token then held.  Under "ensure" an error leaves the API method
\* before its try block; under "retry" an error is no ClientError, so no except
\* clause of the method catches it.
TokenReturn(st, res, tok) ==
    CASE st.via = "top" -> Done(st, res)
      [] st.via = "ensure" -> IF res = "ok" THEN AfterEnsure(st, tok) ELSE Done(st, res)
      [] st.via = "retry" -> IF res = "ok" THEN SendRetry(st, tok) ELSE Done(st, res)

\* api.py:182: leaving _ensure_token, normally or by an exception, releases the lock.
LockAfterReturn(st) == IF st.via = "ensure" THEN NoProc ELSE lock

\* api.py:105-117: what a failed login raises; the total timeout of the request
\* (asyncio.TimeoutError) is no ClientError and is raised as it is.
LoginError(status) ==
    CASE status = "rejected403" -> "FermaxAuthError"
      [] status = "client_error" -> "FermaxConnectionError"
      [] status = "timeout" -> "TimeoutError"

\* A faulty variant of RefreshFailure: a failed refresh grant is raised, not replaced by a login.
RefreshFailureRaises(st, status) ==
    TokenReturn(st, IF status = "timeout" THEN "TimeoutError" ELSE LoginError(status),
                access_token)

\* What async_refresh_token does with a refresh grant that failed with status:
\* api.py:155-160 and 164-169 call async_login; the total timeout is no
\* ClientError and leaves async_refresh_token.
RefreshFailure(st, status) ==
    IF status \in {"rejected403", "client_error"}
    THEN CallLogin(st)
    ELSE TokenReturn(st, "TimeoutError", access_token)

\* A faulty variant of FirstAnswer: a request answered with a server error is sent again.
FirstAnswerResendsOnError(st, status) ==
    CASE status = "unauthorized401" -> CallRefresh(st, "retry")
      [] status = "ok200" -> Done(st, "ok")
      [] status = "error500" -> SendRetry(st, access_token)
      [] status = "client_error" -> Done(st, WrapClientError(st.op))
      [] status = "timeout" -> Done(st, "TimeoutError")

\* What an API method does with the answer to its first request
\* (api.py:262-280 and the same shape in the other four methods).
FirstAnswer(st, status) ==
    CASE status = "unauthorized401" -> CallRefresh(st, "retry")
      [] status = "ok200" -> Done(st, "ok")
      [] status \in {"error500", "client_error"} -> Done(st, WrapClientError(st.op))
      [] status = "timeout" -> Done(st, "TimeoutError")

\* What an API method does with the answer to the request it sent again:
\* raise_for_status turns every status >= 400 into a ClientError (api.py:267-271).
RetryAnswer(st, status) ==
    CASE status = "ok200" -> Done(st, "ok")
      [] status \in {"unauthorized401", "error500", "client_error"} ->
            Done(st, WrapClientError(st.op))
      [] status = "timeout" -> Done(st, "TimeoutError")

\* History: a bare _ensure_token call remembers the expiry it stored.
Stored(st, e) == IF st.op = "ensure" THEN [st EXCEPT !.stored = e] ELSE st

(***************************************************************************)
(* Session client: actions.                                                *)
(***************************************************************************)
\* A caller starts client operation o on coroutine p.  async_login and
\* async_refresh_token send their request at once; the other operations enter
\* _ensure_token (api.py:180-185), where asyncio.Lock.acquire returns without
\* suspending when the lock is free and nobody waits, and suspends otherwise.
Start(p, o) ==
    /\ proc[p].pc = "idle"
    /\ LET st == [IdleProc EXCEPT !.op = o] IN
       CASE o = "login" ->
              /\ proc' = [proc EXCEPT ![p] = CallLogin(st)]
              /\ UNCHANGED <<lock, lockq>>
         [] o = "refresh" ->
              /\ proc' = [proc EXCEPT ![p] = CallRefresh(st, "top")]
              /\ UNCHANGED <<lock, lockq>>
         [] OTHER ->
              IF lock = NoProc /\ lockq = <<>>
              THEN /\ proc' = [proc EXCEPT ![p] = EnsureCheck(st, p).st]
                   /\ lock' = EnsureCheck(st, p).lock
                   /\ UNCHANGED lockq
              ELSE /\ proc' = [proc EXCEPT ![p] =
                                  [st EXCEPT !.pc = "lock_wait", !.waited = TRUE]]
                   /\ lockq' = Append(lockq, p)
                   /\ UNCHANGED lock
    /\ UNCHANGED <<access_token, refresh_token, expires_at, now>>

\* The first coroutine suspended on the lock enters it (api.py:182).
LockAcquire(p) ==
    /\ proc[p].pc = "lock_wait"
    /\ lock = NoProc
    /\ lockq # <<>> /\ Head(lockq) = p
    /\ lockq' = Tail(lockq)
    /\ proc' = [proc EXCEPT ![p] = EnsureCheck(proc[p], p).st]
    /\ lock' = EnsureCheck(proc[p], p).lock
    /\ UNCHANGED <<access_token, refresh_token, expires_at, now>>

\* The token endpoint answers a password grant with 200 (api.py:112-125).
LoginOk(p, data) ==
    /\ proc[p].pc = "login_wait"
    /\ access_token' = data.access_token
    /\ refresh_token' = IF data.refresh_token = Absent THEN NoToken ELSE data.refresh_token
    /\ expires_at' = ExpiresAt(now, ExpiresIn(data))
    /\ proc' = [proc EXCEPT ![p] =
                  TokenReturn(Stored(proc[p], ExpiresAt(now, ExpiresIn(data))),
                              "ok", data.access_token)]
    /\ lock' = LockAfterReturn(proc[p])
    /\ UNCHANGED <<now, lockq>>

\* A faulty variant of LoginFail: the failed login forgets the refresh token.
LoginFailDropsRefreshToken(p, status) ==
    /\ proc[p].pc = "login_wait"
    /\ status # "ok200"
    /\ proc' = [proc EXCEPT ![p] = TokenReturn(proc[p], LoginError(status), access_token)]
    /\ lock' = LockAfterReturn(proc[p])
    /\ refresh_token' = NoToken
    /\ UNCHANGED <<access_token, expires_at, now, lockq>>

\* The password grant fails (api.py:105-117, or the total timeout).
LoginFail(p, status) ==
    /\ proc[p].pc = "login_wait"
    /\ status # "ok200"
    /\ proc' = [proc EXCEPT ![p] = TokenReturn(proc[p], LoginError(status), access_token)]
    /\ lock' = LockAfterReturn(proc[p])
    /\ UNCHANGED <<access_token, refresh_token, expires_at, now, lockq>>

\* The token endpoint answers a refresh grant with 200 (api.py:162-178).
RefreshOk(p, data) ==
    /\ proc[p].pc = "refresh_wait"
    /\ access_token' = data.access_token
    /\ refresh_token' = IF data.refresh_token = Absent THEN refresh_token
                        ELSE data.refresh_token
    /\ expires_at' = ExpiresAt(now, ExpiresIn(data))
    /\ proc' = [proc EXCEPT ![p] =
                  TokenReturn(Stored(proc[p], ExpiresAt(now, ExpiresIn(data))),
                              "ok", data.access_token)]
    /\ lock' = LockAfterReturn(proc[p])
    /\ UNCHANGED <<now, lockq>>

\* The refresh grant fails (api.py:155-169, or the total timeout).
RefreshFail(p, status) ==
    /\ proc[p].pc = "refresh_wait"
    /\ status # "ok200"
    /\ proc' = [proc EXCEPT ![p] = RefreshFailure(proc[p], status)]
    /\ lock' = IF RefreshFailure(proc[p], status).pc = "login_wait" THEN lock
               ELSE LockAfterReturn(proc[p])
    /\ UNCHANGED <<access_token, refresh_token, expires_at, now, lockq>>

\* An API endpoint answers the first request of a method.
ApiResp(p, status) ==
    /\ proc[p].pc = "api_wait"
    /\ proc' = [proc EXCEPT ![p] = FirstAnswer(proc[p], status)]
    /\ UNCHANGED <<access_token, refresh_token, expires_at, now, lock, lockq>>

\* An API endpoint answers the request sent again after a 401.
RetryResp(p, status) ==
    /\ proc[p].pc = "retry_wait"
    /\ proc' = [proc EXCEPT ![p] = RetryAnswer(proc[p], status)]
    /\ UNCHANGED <<access_token, refresh_token, expires_at, now, lock, lockq>>

\* The clock advances.
Tick(t) ==
    /\ t > now
    /\ now' = t
    /\ UNCHANGED <<access_token, refresh_token, expires_at, lock, lockq, proc>>

(***************************************************************************)
(* The retry helper (api.py:187-205).                                      *)
(***************************************************************************)
\* What one invocation of the wrapped operation may do.
FuncOutcomes ==
    {"ok", "FermaxConnectionError", "FermaxAPIError", "FermaxAuthError", "TimeoutError"}

NoResult == [kind |-> "none", call |-> 0]

RECURSIVE Pow2(_)
Pow2(n) == IF n = 0 THEN 1 ELSE 2 * Pow2(n - 1)

\* A faulty variant of Retryable: the except clause names the base class FermaxError.
RetryableAnyFermaxError(err) ==
    err \in {"FermaxConnectionError", "FermaxAPIError", "FermaxAuthError"}

\* api.py:194: the errors the except clause catches.
Retryable(err) == err \in {"FermaxConnectionError", "FermaxAPIError"}

\* A faulty variant of LastAttempt: the bound of the loop is taken one too far.
LastAttemptOffByOne(a) == a = MAX_RETRIES

\* api.py:195: the attempt after which the error is raised again.
LastAttempt(a) == a = MAX_RETRIES - 1

\* A faulty variant of BackoffDelay: the exponent is taken one too far.
BackoffDelayDoubled(a) == INITIAL_RETRY_DELAY * Pow2(a + 1)

\* api.py:197: INITIAL_RETRY_DELAY * (2**attempt)
BackoffDelay(a) == INITIAL_RETRY_DELAY * Pow2(a)

RetryIdle ==
    /\ r_pc = "idle"
    /\ attempt = 0
    /\ r_calls = 0
    /\ sleeps = <<>>
    /\ r_result = NoResult

\* api.py:191-193: the loop starts and func is awaited.
RetryStart ==
    /\ r_pc = "idle"
    /\ r_pc' = "calling"
    /\ attempt' = 0
    /\ r_calls' = 1
    /\ UNCHANGED <<script, sleeps, r_result>>

\* api.py:193-205: func returns (its result is returned), raises an error the
\* except clause catches (raised again on the last attempt, else slept on), or
\* raises any other error (not caught).
FuncEnds ==
    /\ r_pc = "calling"
    /\ LET out == script[r_calls] IN
       IF out = "ok"
       THEN /\ r_pc' = "returned"
            /\ r_result' = [kind |-> "ok", call |-> r_calls]
            /\ UNCHANGED sleeps
       ELSE IF Retryable(out) /\ ~LastAttempt(attempt)
       THEN /\ r_pc' = "sleeping"
            /\ sleeps' = Append(sleeps, BackoffDelay(attempt))
            /\ UNCHANGED r_result
       ELSE /\ r_pc' = "raised"
            /\ r_result' = [kind |-> out, call |-> r_calls]
            /\ UNCHANGED sleeps
    /\ UNCHANGED <<script, attempt, r_calls>>

\* api.py:205, 191: the sleep is over; the loop goes on with the next attempt,
\* or ends, and the method returns None.
WakeUp ==
    /\ r_pc = "sleeping"
    /\ attempt' = attempt + 1
    /\ IF attempt + 1 < MAX_RETRIES
       THEN /\ r_pc' = "calling"
            /\ r_calls' = r_calls + 1
            /\ UNCHANGED r_result
       ELSE /\ r_pc' = "returned"
            /\ r_result' = [kind |-> "None", call |-> 0]
            /\ UNCHANGED r_calls
    /\ UNCHANGED <<script, sleeps>>

(***************************************************************************)
(* The coordinator's refresh cycle (coordinator.py:35-110).                *)
(***************************************************************************)
DeviceIds == {"A", "B", "C"}
DeviceOrder == <<"A", "B", "C">>

\* A pairing whose "deviceId" is missing or empty.
NoId == ""

\* What the client's calls may end with during a cycle.
ListingErrors == {"FermaxConnectionError", "FermaxAuthError", "TimeoutError"}
DeviceOutcomes == {"ok", "FermaxConnectionError", "TimeoutError"}
ServicesOutcomes == {"list", "empty", "FermaxAuthError", "TimeoutError"}

\* The empty dict.
EmptyMap == [d \in {} |-> 0]

\* DataUpdateCoordinator.data before the first successful cycle (None).
NoData == [published |-> FALSE, devices |-> EmptyMap]

\* The keys of a pairing's "accessDoorMap".
DoorKeys == {"ZERO", "ONE"}

\* A door's "accessId"; a missing field is Absent.
AccessId(b, sb, nr) == [block |-> b, subblock |-> sb, number |-> nr]

\* The door maps the server sends: one complete door; two doors, the second
\* without number; two doors, without block and without subblock.
OneDoor == [k \in {"ZERO"} |-> AccessId(1, 0, 1)]
DoorMaps ==
    { OneDoor,
      [k \in DoorKeys |-> IF k = "ZERO" THEN AccessId(1, 0, 2) ELSE AccessId(1, 0, Absent)],
      [k \in DoorKeys |-> IF k = "ZERO" THEN AccessId(Absent, 0, 1) ELSE AccessId(1, Absent, 1)] }

\* The pairing list the server returns in cycle n for the paired devices ids,
\* each with door map dm, preceded, when blank holds, by a pairing without a
\* device id.
PairingList(ids, blank, dm, n) ==
    LET Listed(d) == d \in ids
        named == SelectSeq(DeviceOrder, Listed)
        recs == [i \in 1..Len(named) |->
                    [deviceId |-> named[i], listed |-> n, accessDoorMap |-> dm]]
    IN  IF blank THEN <<[deviceId |-> NoId, listed |-> n, accessDoorMap |-> dm]>> \o recs
        ELSE recs

\* A faulty variant of HasId: a pairing without a device id gets a task as well.
HasIdAlways(pairing) == TRUE

\* coordinator.py:48-54: one task per pairing that has a device id.
HasId(pairing) == pairing.deviceId # NoId

NewTasks(pl) ==
    LET withId == SelectSeq(pl, HasId)
    IN  [i \in 1..Len(withId) |->
            [device_id |-> withId[i].deviceId, pairing |-> withId[i],
             st |-> "get_device", info |-> 0, services |-> "none"]]

\* coordinator.py:102-106: what _update_device returns.
Entry(task) == [info |-> task.info, pairing |-> task.pairing, services |-> task.services]

\* A faulty variant of Finished: the gather is done as soon as one task is.
FinishedFirst(ts) == \E i \in 1..Len(ts) : ts[i].st \in {"fetched", "failed"}

\* coordinator.py:57: the gather is done when every task is.
Finished(ts) == \A i \in 1..Len(ts) : ts[i].st \in {"fetched", "failed"}

\* m with key k set to v (a dict assignment).
Put(m, k, v) == [x \in (DOMAIN m) \cup {k} |-> IF x = k THEN v ELSE m[x]]

\* coordinator.py:60-70: the loop over zip(device_ids, results), from task i
\* on; acc holds devices_data and self._devices.
RECURSIVE MergeFrom(_, _, _)
MergeFrom(ts, i, acc) ==
    IF i > Len(ts) THEN acc
    ELSE LET t == ts[i]
             next ==
                IF t.st = "failed"
                THEN IF t.device_id \in DOMAIN acc.cache
                     THEN [acc EXCEPT !.devices_data =
                              Put(@, t.device_id, acc.cache[t.device_id])]
                     ELSE acc
                ELSE [devices_data |-> Put(acc.devices_data, t.device_id, Entry(t)),
                      cache |-> Put(acc.cache, t.device_id, Entry(t))]
         IN  MergeFrom(ts, i + 1, next)

\* A faulty variant of Merged: the merge starts from the cache, not from an empty dict.
MergedOntoCache(ts) == MergeFrom(ts, 1, [devices_data |-> devices, cache |-> devices])

\* A faulty variant of Merged: the fetched entries are published but not cached.
MergedWithoutCaching(ts) ==
    [devices_data |-> MergeFrom(ts, 1, [devices_data |-> EmptyMap, cache |-> devices]).devices_data,
     cache |-> devices]

\* coordinator.py:42, 60-70: devices_data starts empty and the loop fills it.
Merged(ts) == MergeFrom(ts, 1, [devices_data |-> EmptyMap, cache |-> devices])

\* A faulty variant of UpdateFailedFor: an authentication error is raised as ConfigEntryAuthFailed.
UpdateFailedOrAuthFailed(err) ==
    CASE err = "FermaxConnectionError" -> "Connection error"
      [] err = "FermaxAuthError" -> "ConfigEntryAuthFailed"
      [] err = "FermaxAPIError" -> "API error"
      [] OTHER -> "Unexpected error"

\* coordinator.py:77-85: the UpdateFailed an error of the cycle is turned into.
UpdateFailedFor(err) ==
    CASE err = "FermaxConnectionError" -> "Connection error"
      [] err \in {"FermaxAuthError", "FermaxAPIError"} -> "API error"
      [] OTHER -> "Unexpected error"

\* coordinator.py:152-156
get_all_devices == IF ~coord_data.published THEN EmptyMap ELSE coord_data.devices

\* What get_device_data returns for a device without entry (None).
NoEntry ==
    [info |-> 0, pairing |-> [deviceId |-> NoId, listed |-> 0, accessDoorMap |-> EmptyMap],
     services |-> "none"]

\* coordinator.py:146-150
get_device_data(d) ==
    IF ~coord_data.published THEN NoEntry
    ELSE IF d \in DOMAIN coord_data.devices THEN coord_data.devices[d] ELSE NoEntry

CoordIdle ==
    /\ devices = EmptyMap
    /\ coord_data = NoData
    /\ phase = "Idle"
    /\ cycle = 0
    /\ pairings = <<>>
    /\ tasks = <<>>
    /\ cycle_error = "none"

\* A faulty variant of CycleStart: the devices of the last pairing list are fetched before the listing.
CycleStartFetchesFirst ==
    /\ phase \in {"Idle", "Published", "Failed"}
    /\ cycle < MaxCycles
    /\ phase' = "FanningOut"
    /\ cycle' = cycle + 1
    /\ tasks' = NewTasks(pairings)
    /\ cycle_error' = "none"
    /\ UNCHANGED <<devices, coord_data, pairings>>

\* The update interval elapses (or a refresh is requested): _async_update_data
\* is called and awaits async_get_pairings (coordinator.py:35-39).
CycleStart ==
    /\ phase \in {"Idle", "Published", "Failed"}
    /\ cycle < MaxCycles
    /\ phase' = "Listing"
    /\ cycle' = cycle + 1
    /\ pairings' = <<>>
    /\ tasks' = <<>>
    /\ cycle_error' = "none"
    /\ UNCHANGED <<devices, coord_data>>

\* A faulty variant of ListingReturns: with no task, an empty map is published.
ListingReturnsPublishesEmpty(ids, blank, dm) ==
    /\ phase = "Listing"
    /\ LET pl == PairingList(ids, blank, dm, cycle) IN
       /\ pairings' = pl
       /\ tasks' = NewTasks(pl)
       /\ IF Len(NewTasks(pl)) = 0
          THEN /\ phase' = "Published"
               /\ coord_data' = [published |-> TRUE, devices |-> EmptyMap]
          ELSE phase' = "FanningOut" /\ UNCHANGED coord_data
    /\ UNCHANGED <<devices, cycle, cycle_error>>

\* coordinator.py:39-57: async_get_pairings returns; the tasks are created and
\* gathered.  With no task, gather is done at once and the cycle goes on to
\* coordinator.py:72-73 without suspending.
ListingReturns(ids, blank, dm) ==
    /\ phase = "Listing"
    /\ LET pl == PairingList(ids, blank, dm, cycle) IN
       /\ pairings' = pl
       /\ tasks' = NewTasks(pl)
       /\ IF Len(NewTasks(pl)) = 0
          THEN phase' = "Failed" /\ cycle_error' = "No devices could be updated"
          ELSE phase' = "FanningOut" /\ UNCHANGED cycle_error
    /\ UNCHANGED <<devices, coord_data, cycle>>

\* A faulty variant of ListingFails: the failed cycle also forgets what was published and cached.
ListingFailsForgets(err) ==
    /\ phase = "Listing"
    /\ phase' = "Failed"
    /\ cycle_error' = UpdateFailedFor(err)
    /\ coord_data' = NoData
    /\ devices' = EmptyMap
    /\ UNCHANGED <<cycle, pairings, tasks>>

\* coordinator.py:39, 77-85: async_get_pairings raises.
ListingFails(err) ==
    /\ phase = "Listing"
    /\ phase' = "Failed"
    /\ cycle_error' = UpdateFailedFor(err)
    /\ UNCHANGED <<devices, coord_data, cycle, pairings, tasks>>

\* A faulty variant of AfterTask: the first failed task ends the gather and the cycle.
AfterTaskFailFast(ts) ==
    IF \E i \in 1..Len(ts) : ts[i].st = "failed" THEN "Failed"
    ELSE IF Finished(ts) THEN "Merging" ELSE "FanningOut"

\* The gather is done when its last task is.
AfterTask(ts) == IF Finished(ts) THEN "Merging" ELSE "FanningOut"

\* A faulty variant of DeviceAnswer: the services are requested whether or not async_get_device succeeded.
DeviceAnswerAsksServicesAnyway(i, out) ==
    /\ phase = "FanningOut"
    /\ i \in 1..Len(tasks)
    /\ tasks[i].st = "get_device"
    /\ tasks' = [tasks EXCEPT ![i] =
                    IF out = "ok"
                    THEN [@ EXCEPT !.st = "get_services", !.info = cycle]
                    ELSE [@ EXCEPT !.st = "get_services"]]
    /\ phase' = AfterTask(tasks')
    /\ UNCHANGED <<devices, coord_data, cycle, pairings, cycle_error>>

\* coordinator.py:93, 108-110: async_get_device of task i returns or raises.
DeviceAnswer(i, out) ==
    /\ phase = "FanningOut"
    /\ i \in 1..Len(tasks)
    /\ tasks[i].st = "get_device"
    /\ tasks' = [tasks EXCEPT ![i] =
                    IF out = "ok"
                    THEN [@ EXCEPT !.st = "get_services", !.info = cycle]
                    ELSE [@ EXCEPT !.st = "failed"]]
    /\ phase' = AfterTask(tasks')
    /\ UNCHANGED <<devices, coord_data, cycle, pairings, cycle_error>>

\* A faulty variant of ServicesAnswer: the task writes its entry into the published map.
ServicesAnswerWritesThrough(i, out) ==
    /\ phase = "FanningOut"
    /\ i \in 1..Len(tasks)
    /\ tasks[i].st = "get_services"
    /\ tasks' = [tasks EXCEPT ![i] =
                    [@ EXCEPT !.st = "fetched",
                              !.services = IF out = "list" THEN "list" ELSE "empty"]]
    /\ coord_data' = [published |-> TRUE,
                      devices |-> Put(coord_data.devices, tasks[i].device_id,
                                      Entry(tasks'[i]))]
    /\ phase' = AfterTask(tasks')
    /\ UNCHANGED <<devices, cycle, pairings, cycle_error>>

\* A faulty variant of ServicesAnswer: an error of async_get_services fails the task.
ServicesAnswerFailsTask(i, out) ==
    /\ phase = "FanningOut"
    /\ i \in 1..Len(tasks)
    /\ tasks[i].st = "get_services"
    /\ tasks' = [tasks EXCEPT ![i] =
                    IF out \in {"list", "empty"}
                    THEN [@ EXCEPT !.st = "fetched", !.services = out]
                    ELSE [@ EXCEPT !.st = "failed"]]
    /\ phase' = AfterTask(tasks')
    /\ UNCHANGED <<devices, coord_data, cycle, pairings, cycle_error>>

\* coordinator.py:96-106: async_get_services of task i returns or raises; an
\* error leaves services = [].
ServicesAnswer(i, out) ==
    /\ phase = "FanningOut"
    /\ i \in 1..Len(tasks)
    /\ tasks[i].st = "get_services"
    /\ tasks' = [tasks EXCEPT ![i] =
                    [@ EXCEPT !.st = "fetched",
                              !.services = IF out = "list" THEN "list" ELSE "empty"]]
    /\ phase' = AfterTask(tasks')
    /\ UNCHANGED <<devices, coord_data, cycle, pairings, cycle_error>>

\* A faulty variant of Merge: the merged map is published even when it is empty.
MergePublishesAlways ==
    /\ phase = "Merging"
    /\ LET m == Merged(tasks) IN
       /\ devices' = m.cache
       /\ phase' = "Published"
       /\ coord_data' = [published |-> TRUE, devices |-> m.devices_data]
    /\ UNCHANGED <<cycle, pairings, tasks, cycle_error>>

\* coordinator.py:57-75: the gather returns, the results are merged, and the
\* cycle returns the new data or raises UpdateFailed.
Merge ==
    /\ phase = "Merging"
    /\ LET m == Merged(tasks) IN
       /\ devices' = m.cache
       /\ IF DOMAIN m.devices_data = {}
          THEN /\ phase' = "Failed"
               /\ cycle_error' = "No devices could be updated"
               /\ UNCHANGED coord_data
          ELSE /\ phase' = "Published"
               /\ coord_data' = [published |-> TRUE, devices |-> m.devices_data]
               /\ UNCHANGED cycle_error
    /\ UNCHANGED <<cycle, pairings, tasks>>

(***************************************************************************)
(* Opening a door through the coordinator (coordinator.py:112-144).        *)
(***************************************************************************)
\* What the client's async_open_door may end with.
OpenDoorOutcomes == {"ok", "FermaxAPIError", "FermaxAuthError", "TimeoutError"}

NoArgs == [device_id |-> NoId, block |-> Absent, subblock |-> Absent, number |-> Absent]

\* device_id, door_key: the arguments of the call; args: the arguments of the
\* client's async_open_door; events: the client call and the refresh request,
\* in the order they were made; result: "ok" or the error raised; asked_at:
\* the number of the last cycle started before the refresh was requested;
\* refresh: how the refresh asked for had ended when async_request_refresh
\* returned.
IdleDoor ==
    [pc |-> "idle", device_id |-> NoId, door_key |-> "none", args |-> NoArgs,
     events |-> <<>>, result |-> "none", asked_at |-> 0, refresh |-> "none"]

\* coordinator.py:116-119: the dict the device is looked up in.
KnownDevices == devices

\* A faulty variant of Incomplete: number is not looked at.
IncompleteIgnoresNumber(aid) == aid.block = Absent \/ aid.subblock = Absent

\* coordinator.py:133: a field of accessId that .get() did not find is None.
Incomplete(aid) == aid.block = Absent \/ aid.subblock = Absent \/ aid.number = Absent

\* A faulty variant of ClientArgs: block and subblock change places.
ClientArgsSwapped(d, aid) ==
    [device_id |-> d, block |-> aid.subblock, subblock |-> aid.block, number |-> aid.number]

\* coordinator.py:129-131, 139: the arguments of the client's async_open_door.
ClientArgs(d, aid) ==
    [device_id |-> d, block |-> aid.block, subblock |-> aid.subblock, number |-> aid.number]

\* coordinator.py:116-139: the lookups, then the client's async_open_door is
\* awaited; a failed lookup raises ValueError before anything is sent.
OpenDoorCall(d, k) ==
    /\ door.pc = "idle"
    /\ LET call == [IdleDoor EXCEPT !.device_id = d, !.door_key = k]
           Raise(msg) == [call EXCEPT !.pc = "done", !.result = msg]
       IN  door' =
             IF d \notin DOMAIN KnownDevices
             THEN Raise("ValueError: device not found")
             ELSE LET access_door_map == KnownDevices[d].pairing.accessDoorMap IN
                  IF k \notin DOMAIN access_door_map
                  THEN Raise("ValueError: door not found")
                  ELSE IF Incomplete(access_door_map[k])
                  THEN Raise("ValueError: invalid door configuration")
                  ELSE [call EXCEPT !.pc = "open_door",
                                    !.args = ClientArgs(d, access_door_map[k]),
                                    !.events = <<"open_door">>]
    /\ UNCHANGED coordVars

\* A faulty variant of OpenDoorAnswer: the refresh is requested whatever the client's call did.
OpenDoorAnswerRefreshesAlways(out) ==
    /\ door.pc = "open_door"
    /\ door' = [door EXCEPT !.pc = "request_refresh",
                            !.events = Append(@, "request_refresh")]
    /\ UNCHANGED coordVars

\* coordinator.py:138-144: the client's async_open_door returns, and
\* async_request_refresh is awaited; or it raises, and the error is raised again.
OpenDoorAnswer(out) ==
    /\ door.pc = "open_door"
    /\ door' = IF out = "ok"
               THEN [door EXCEPT !.pc = "request_refresh",
                                 !.events = Append(@, "request_refresh"),
                                 !.asked_at = cycle]
               ELSE [door EXCEPT !.pc = "done", !.result = out]
    /\ UNCHANGED coordVars

\* How the refresh asked for stands: a cycle started after the request has
\* ended Published or Failed, or none has yet (the request is debounced, or
\* its cycle still runs).
FollowUp ==
    IF cycle > door.asked_at /\ phase \in {"Published", "Failed"} THEN phase ELSE "deferred"

\* A faulty variant of RequestRefreshResult: the failure of the refresh is raised to the caller.
RequestRefreshResultRaises(outcome) == IF outcome = "Failed" THEN "UpdateFailed" ELSE "ok"

\* DataUpdateCoordinator.async_request_refresh: the refresh is best-effort;
\* its failure is logged and recorded, and the call returns normally.
RequestRefreshResult(outcome) == "ok"

\* coordinator.py:141-144: async_request_refresh returns, or raises and the
\* error is raised again.
RequestRefreshReturns ==
    /\ door.pc = "request_refresh"
    /\ door' = [door EXCEPT !.pc = "done", !.refresh = FollowUp,
                            !.result = RequestRefreshResult(FollowUp)]
    /\ UNCHANGED coordVars

\* Coroutines are interchangeable: they are started in the order of their numbers.
InOrder(p) == \A q \in Procs : q < p => proc[q].pc # "idle"

\* api.py:55-58: a new client holds no token.
FreshClient ==
    /\ access_token = NoToken
    /\ refresh_token = NoToken
    /\ expires_at = 0

\* A client that logged in at time 0 (api.py:119-122).
LoggedInClient ==
    /\ access_token = 1
    /\ refresh_token \in RefreshTokens \cup {NoToken}
    /\ expires_at \in {ExpiresAt(0, e) : e \in Lifetimes}

ClientIdle ==
    /\ FreshClient
    /\ now = 0
    /\ lock = NoProc
    /\ lockq = <<>>
    /\ proc = [p \in Procs |-> IdleProc]

ClientInit ==
    /\ FreshClient \/ LoggedInClient
    /\ now = 0
    /\ lock = NoProc
    /\ lockq = <<>>
    /\ proc = [p \in Procs |-> IdleProc]

\* What a step of one component leaves alone.
ClientOnly == UNCHANGED <<retryVars, coordVars, door, setup>>
RetryOnly == UNCHANGED <<clientVars, coordVars, door, setup>>
CoordOnly == UNCHANGED <<clientVars, retryVars, door, setup>>
DoorOnly == UNCHANGED <<clientVars, retryVars, setup>>

(***************************************************************************)
(* Setup of the config entry (__init__.py:28-81).                          *)
(***************************************************************************)
\* async_setup_entry was not called yet.
IdleSetup == [pc |-> "idle", coordinator |-> FALSE, outcome |-> "none"]

\* A faulty variant of SetupError: every failure of the login means "retry later".
SetupErrorNotReadyAlways(err) == "ConfigEntryNotReady"

\* __init__.py:44-52: what async_setup_entry raises for an error of async_login.
SetupError(err) ==
    IF err = "FermaxAuthError" THEN "ConfigEntryAuthFailed" ELSE "ConfigEntryNotReady"

\* config_flow.py:30-37: the form error validate_credentials gives for an error
\* of async_login.
validate_credentials(err) ==
    CASE err = "FermaxAuthError" -> "invalid_auth"
      [] err = "FermaxConnectionError" -> "cannot_connect"
      [] OTHER -> "unknown"

\* __init__.py:36-42: async_setup_entry builds the client and awaits async_login,
\* here on coroutine 1.
SetupStart ==
    /\ setup.pc = "idle"
    /\ Start(1, "login")
    /\ setup' = [setup EXCEPT !.pc = "login"]
    /\ UNCHANGED <<retryVars, coordVars, door>>

\* The login succeeds: the coordinator is created and its first refresh starts
\* (__init__.py:54-63); nothing is awaited before _async_update_data awaits
\* async_get_pairings.
SetupLoginOk(data) ==
    /\ setup.pc = "login"
    /\ LoginOk(1, data)
    /\ CycleStart
    /\ setup' = [setup EXCEPT !.pc = "first_refresh", !.coordinator = TRUE]
    /\ UNCHANGED <<retryVars, door>>

\* The login fails: async_setup_entry raises (__init__.py:44-52).
SetupLoginFail(status) ==
    /\ setup.pc = "login"
    /\ LoginFail(1, status)
    /\ setup' = [setup EXCEPT !.pc = "done", !.outcome = SetupError(LoginError(status))]
    /\ UNCHANGED <<retryVars, coordVars, door>>

\* __init__.py:62-81: when the first refresh ends, async_setup_entry raises
\* ConfigEntryNotReady for a failed cycle and goes on to load the entry else.
AfterFirstRefresh ==
    IF setup.pc = "first_refresh" /\ phase' \in {"Published", "Failed"}
    THEN [setup EXCEPT !.pc = "done",
                       !.outcome = IF phase' = "Published" THEN "loaded"
                                   ELSE "ConfigEntryNotReady"]
    ELSE setup

\* A step of the coordinator the entry's setup created.
SetupCoordStep ==
    /\ setup.coordinator
    /\ setup' = AfterFirstRefresh
    /\ UNCHANGED <<clientVars, retryVars, door>>

\* The update interval elapses on a loaded entry (__init__.py:55-59).
SetupNextCycle ==
    /\ setup.outcome = "loaded"
    /\ CycleStart
    /\ CoordOnly

\* The token endpoint's answers.
TokenAnswer(p) ==
    \/ \E data \in TokenData : LoginOk(p, data) /\ ClientOnly
    \/ \E status \in TokenStatus : LoginFail(p, status) /\ ClientOnly
    \/ \E data \in TokenData : RefreshOk(p, data) /\ ClientOnly
    \/ \E status \in TokenStatus : RefreshFail(p, status) /\ ClientOnly

(***************************************************************************)
(* Spec: the per-device fetches of one refresh cycle, which the coordinator *)
(* runs concurrently on one client (coordinator.py:48-57, 91-97).          *)
(***************************************************************************)
Init ==
    /\ ClientInit /\ RetryIdle /\ script = <<>> /\ CoordIdle /\ door = IdleDoor
    /\ setup = IdleSetup

FetchOps == {"get_device", "get_services"}

Next ==
    \/ \E p \in Procs, o \in FetchOps : InOrder(p) /\ Start(p, o) /\ ClientOnly
    \/ \E p \in Procs : LockAcquire(p) /\ ClientOnly
    \/ \E p \in Procs : TokenAnswer(p)
    \/ \E p \in Procs, status \in ApiStatus : ApiResp(p, status) /\ ClientOnly
    \/ \E p \in Procs, status \in ApiStatus : RetryResp(p, status) /\ ClientOnly
    \/ \E t \in Instants : Tick(t) /\ ClientOnly

Spec == Init /\ [][Next]_vars

(***************************************************************************)
(* SpecEnsure: every coroutine calls _ensure_token once, on a client whose *)
(* token is missing or expired.                                            *)
(***************************************************************************)
InitEnsure == Init /\ ~TokenValid

NextEnsure ==
    \/ \E p \in Procs : InOrder(p) /\ Start(p, "ensure") /\ ClientOnly
    \/ \E p \in Procs : LockAcquire(p) /\ ClientOnly
    \/ \E p \in Procs : TokenAnswer(p)
    \/ \E t \in Instants : Tick(t) /\ ClientOnly

SpecEnsure == InitEnsure /\ [][NextEnsure]_vars

(***************************************************************************)
(* SpecToken: coroutines call _ensure_token and async_login concurrently.  *)
(***************************************************************************)
NextToken ==
    \/ \E p \in Procs, o \in {"ensure", "login"} : InOrder(p) /\ Start(p, o) /\ ClientOnly
    \/ \E p \in Procs : LockAcquire(p) /\ ClientOnly
    \/ \E p \in Procs : TokenAnswer(p)
    \/ \E t \in Instants : Tick(t) /\ ClientOnly

SpecToken == Init /\ [][NextToken]_vars

(***************************************************************************)
(* SpecRefresh: coroutines call async_refresh_token and async_login        *)
(* concurrently.                                                           *)
(***************************************************************************)
NextRefresh ==
    \/ \E p \in Procs, o \in {"refresh", "login"} : InOrder(p) /\ Start(p, o) /\ ClientOnly
    \/ \E p \in Procs : TokenAnswer(p)
    \/ \E t \in Instants : Tick(t) /\ ClientOnly

SpecRefresh == Init /\ [][NextRefresh]_vars

(***************************************************************************)
(* SpecDevice: coroutine 1 calls async_get_device while the others call    *)
(* async_login, which writes the token state at any moment.                *)
(***************************************************************************)
NextDevice ==
    \/ Start(1, "get_device") /\ ClientOnly
    \/ \E p \in Procs \ {1} : Start(p, "login") /\ ClientOnly
    \/ \E p \in Procs : TokenAnswer(p)
    \/ \E status \in ApiStatus : ApiResp(1, status) /\ ClientOnly
    \/ \E status \in ApiStatus : RetryResp(1, status) /\ ClientOnly
    \/ \E t \in Instants : Tick(t) /\ ClientOnly

SpecDevice == Init /\ [][NextDevice]_vars

(***************************************************************************)
(* SpecServices: coroutine 1 calls async_get_services while the others     *)
(* call async_login.                                                       *)
(***************************************************************************)
NextServices ==
    \/ Start(1, "get_services") /\ ClientOnly
    \/ \E p \in Procs \ {1} : Start(p, "login") /\ ClientOnly
    \/ \E p \in Procs : TokenAnswer(p)
    \/ \E status \in ApiStatus : ApiResp(1, status) /\ ClientOnly
    \/ \E status \in ApiStatus : RetryResp(1, status) /\ ClientOnly
    \/ \E t \in Instants : Tick(t) /\ ClientOnly

SpecServices == Init /\ [][NextServices]_vars

(***************************************************************************)
(* SpecOpenDoor: coroutine 1 calls the client's async_open_door while the  *)
(* others call async_login.                                                *)
(***************************************************************************)
NextOpenDoor ==
    \/ Start(1, "open_door") /\ ClientOnly
    \/ \E p \in Procs \ {1} : Start(p, "login") /\ ClientOnly
    \/ \E p \in Procs : TokenAnswer(p)
    \/ \E status \in ApiStatus : ApiResp(1, status) /\ ClientOnly
    \/ \E status \in ApiStatus : RetryResp(1, status) /\ ClientOnly
    \/ \E t \in Instants : Tick(t) /\ ClientOnly

SpecOpenDoor == Init /\ [][NextOpenDoor]_vars

(***************************************************************************)
(* SpecShortLived: async_get_device and async_login calls on a client      *)
(* whose token endpoint may also report lifetimes of a minute or less.     *)
(***************************************************************************)
ShortLifetimes == {30, 60, 3600}

ShortLivedData ==
    [access_token : Tokens, refresh_token : RefreshTokens \cup {Absent},
     expires_in : ShortLifetimes]

NextShortLived ==
    \/ \E p \in Procs, o \in {"get_device", "login"} :
          InOrder(p) /\ Start(p, o) /\ ClientOnly
    \/ \E p \in Procs : LockAcquire(p) /\ ClientOnly
    \/ \E p \in Procs, data \in ShortLivedData : LoginOk(p, data) /\ ClientOnly
    \/ \E p \in Procs, data \in ShortLivedData : RefreshOk(p, data) /\ ClientOnly
    \/ \E p \in Procs : LoginFail(p, "rejected403") /\ ClientOnly
    \/ \E p \in Procs : RefreshFail(p, "rejected403") /\ ClientOnly
    \/ \E p \in Procs : ApiResp(p, "ok200") /\ ClientOnly
    \/ \E t \in Instants : Tick(t) /\ ClientOnly

SpecShortLived == Init /\ [][NextShortLived]_vars

(***************************************************************************)
(* SpecRetry: one call of _retry_with_backoff on an operation whose        *)
(* behaviour at each invocation is fixed beforehand.                       *)
(***************************************************************************)
InitRetry ==
    /\ ClientIdle
    /\ CoordIdle
    /\ door = IdleDoor
    /\ setup = IdleSetup
    /\ RetryIdle
    /\ script \in [1..(MAX_RETRIES + 1) -> FuncOutcomes]

NextRetry ==
    \/ RetryStart /\ RetryOnly
    \/ FuncEnds /\ RetryOnly
    \/ WakeUp /\ RetryOnly

SpecRetry == InitRetry /\ [][NextRetry]_vars

\* The awaited operation ends and asyncio.sleep returns.
SpecRetryFair == SpecRetry /\ WF_vars(NextRetry)

(***************************************************************************)
(* SpecCoord: the coordinator's refresh cycles, one after the other, the   *)
(* client's calls ending in any of the ways the client lets them end.      *)
(***************************************************************************)
InitCoord ==
    /\ ClientIdle
    /\ RetryIdle
    /\ script = <<>>
    /\ CoordIdle
    /\ door = IdleDoor
    /\ setup = IdleSetup

NextCoord ==
    \/ CycleStart /\ CoordOnly
    \/ \E ids \in SUBSET DeviceIds, blank \in BOOLEAN :
          ListingReturns(ids, blank, OneDoor) /\ CoordOnly
    \/ \E err \in ListingErrors : ListingFails(err) /\ CoordOnly
    \/ \E i \in 1..Cardinality(DeviceIds), out \in DeviceOutcomes : DeviceAnswer(i, out) /\ CoordOnly
    \/ \E i \in 1..Cardinality(DeviceIds), out \in ServicesOutcomes : ServicesAnswer(i, out) /\ CoordOnly
    \/ Merge /\ CoordOnly

SpecCoord == InitCoord /\ [][NextCoord]_vars

(***************************************************************************)
(* SpecDoor: one call of the coordinator's async_open_door at any moment   *)
(* of the refresh cycles of an account with up to two devices, whose       *)
(* pairings carry any of the door maps.                                    *)
(***************************************************************************)
DoorDevices == {"A", "B"}

NextDoor ==
    \/ CycleStart /\ CoordOnly
    \/ \E ids \in SUBSET DoorDevices, dm \in DoorMaps :
          ListingReturns(ids, FALSE, dm) /\ CoordOnly
    \/ ListingFails("FermaxConnectionError") /\ CoordOnly
    \/ \E i \in 1..Cardinality(DoorDevices), out \in DeviceOutcomes :
          DeviceAnswer(i, out) /\ CoordOnly
    \/ \E i \in 1..Cardinality(DoorDevices) : ServicesAnswer(i, "list") /\ CoordOnly
    \/ Merge /\ CoordOnly
    \/ \E d \in DeviceIds, k \in DoorKeys : OpenDoorCall(d, k) /\ DoorOnly
    \/ \E out \in OpenDoorOutcomes : OpenDoorAnswer(out) /\ DoorOnly
    \/ RequestRefreshReturns /\ DoorOnly

SpecDoor == InitCoord /\ [][NextDoor]_vars

(***************************************************************************)
(* SpecCycleFair: the refresh cycles of an account with at most two        *)
(* devices, in which the client calls a cycle awaits do end (every request *)
(* carries its timeouts, api.py:213-217 and alike) and the event loop      *)
(* resumes _async_update_data when its gather is done.                     *)
(***************************************************************************)
CycleProgress ==
    \/ \E ids \in SUBSET DoorDevices, blank \in BOOLEAN :
          ListingReturns(ids, blank, OneDoor) /\ CoordOnly
    \/ \E err \in ListingErrors : ListingFails(err) /\ CoordOnly
    \/ \E i \in 1..Cardinality(DoorDevices), out \in DeviceOutcomes :
          DeviceAnswer(i, out) /\ CoordOnly
    \/ \E i \in 1..Cardinality(DoorDevices), out \in ServicesOutcomes :
          ServicesAnswer(i, out) /\ CoordOnly
    \/ Merge /\ CoordOnly

NextCycle ==
    \/ CycleStart /\ CoordOnly
    \/ CycleProgress

SpecCycleFair == InitCoord /\ [][NextCycle]_vars /\ WF_vars(CycleProgress)

(***************************************************************************)
(* SpecServicesDown: the refresh cycles of an account with at most two     *)
(* devices while every async_get_services call raises.                     *)
(***************************************************************************)
ServicesErrors == ServicesOutcomes \ {"list", "empty"}

NextServicesDown ==
    \/ CycleStart /\ CoordOnly
    \/ \E ids \in SUBSET DoorDevices, blank \in BOOLEAN :
          ListingReturns(ids, blank, OneDoor) /\ CoordOnly
    \/ \E err \in ListingErrors : ListingFails(err) /\ CoordOnly
    \/ \E i \in 1..Cardinality(DoorDevices), out \in DeviceOutcomes :
          DeviceAnswer(i, out) /\ CoordOnly
    \/ \E i \in 1..Cardinality(DoorDevices), out \in ServicesErrors :
          ServicesAnswer(i, out) /\ CoordOnly
    \/ Merge /\ CoordOnly

SpecServicesDown == InitCoord /\ [][NextServicesDown]_vars

(***************************************************************************)
(* SpecSetup: async_setup_entry on a new client, then the refresh cycles   *)
(* of the coordinator it created.                                          *)
(***************************************************************************)
NextSetup ==
    \/ SetupStart
    \/ \E data \in TokenData : SetupLoginOk(data)
    \/ \E status \in TokenStatus : SetupLoginFail(status)
    \/ \E t \in Instants : Tick(t) /\ ClientOnly
    \/ \E ids \in SUBSET DoorDevices, blank \in BOOLEAN :
          ListingReturns(ids, blank, OneDoor) /\ SetupCoordStep
    \/ \E err \in ListingErrors : ListingFails(err) /\ SetupCoordStep
    \/ \E i \in 1..Cardinality(DoorDevices), out \in DeviceOutcomes :
          DeviceAnswer(i, out) /\ SetupCoordStep
    \/ \E i \in 1..Cardinality(DoorDevices), out \in ServicesOutcomes :
          ServicesAnswer(i, out) /\ SetupCoordStep
    \/ Merge /\ SetupCoordStep
    \/ SetupNextCycle

SpecSetup == InitCoord /\ [][NextSetup]_vars

(***************************************************************************)
(* Properties of the session client.                                       *)
(***************************************************************************)
Errors == {"FermaxAuthError", "FermaxConnectionError", "FermaxAPIError", "TimeoutError"}

AllReturned == \A p \in Procs : proc[p].pc = "done"

\* Requests the coroutine's call of _ensure_token sent to the token endpoint.
TokenRequests(p) == proc[p].nLogin + proc[p].nGrant

RECURSIVE SumTokenRequests(_)
SumTokenRequests(n) == IF n = 0 THEN 0 ELSE TokenRequests(n) + SumTokenRequests(n - 1)

\* Every token request got a 200: nobody raised, and nobody's refresh grant
\* had to be followed by a login.
NoTokenRequestFailed ==
    \A p \in Procs : proc[p].result = "ok" /\ ~(proc[p].nGrant = 1 /\ proc[p].nLogin = 1)

\* No token that a caller stored has expired.
StoredTokensUnexpired ==
    \A p \in Procs : proc[p].stored # Absent => now < proc[p].stored

\* C1 as stated: concurrent _ensure_token calls on a client whose token is
\* missing or expired send exactly one request to the token endpoint in total.
C1_ExactlyOneTokenRequest ==
    AllReturned => SumTokenRequests(NumCallers) = 1

\* C1, amended: the calls send exactly one request in total when no token
\* request failed and no stored token has expired while the calls ran; and a
\* call sends at most two requests (a refresh grant, then a login).
C1_OneRequestWhenItSucceeds ==
    /\ \A p \in Procs : TokenRequests(p) <= 2
    /\ (AllReturned /\ NoTokenRequestFailed /\ StoredTokensUnexpired)
          => SumTokenRequests(NumCallers) = 1

\* Two concurrent calls have returned after one token request: the second
\* waited for the lock and found the first one's token.
C1_Witness ==
    /\ AllReturned /\ NoTokenRequestFailed /\ StoredTokensUnexpired
    /\ SumTokenRequests(NumCallers) = 1
    /\ \E p \in Procs : proc[p].waited /\ TokenRequests(p) = 0

\* C2: at most one login or refresh-grant request is in flight on one client.
C2_OneTokenRequestInFlight ==
    Cardinality({p \in Procs : proc[p].pc \in TokenWait}) <= 1

\* A coroutine's login or refresh stores a token in this step.
StoresToken(p) ==
    \E data \in TokenData : LoginOk(p, data) \/ RefreshOk(p, data)

\* C3: every write of the token state is made by a coroutine that holds the
\* token lock.
C3_TokenWrittenUnderLock ==
    [][\A p \in Procs : StoresToken(p) => lock = p]_vars

\* Coroutine p passes the validity check of _ensure_token in this step.
EnsureChecks(p) ==
    /\ proc[p].pc \in {"idle", "lock_wait"}
    /\ proc'[p].pc \notin {"idle", "lock_wait"}
    /\ proc'[p].op \notin {"login", "refresh"}

\* C4: a successful login or refresh at time t with lifetime E sets the expiry
\* to t + E - 60; _ensure_token re-authenticates exactly when no access token
\* is held or now >= expiry; a token issued at 0 with lifetime 3600 is kept at
\* 3539 and replaced at 3540.
C4_ExpiryAndValidity ==
    [][\A p \in Procs :
        /\ \A data \in TokenData :
              (LoginOk(p, data) \/ RefreshOk(p, data)) =>
                 /\ expires_at' = now + ExpiresIn(data) - 60
                 /\ (now = 0 /\ ExpiresIn(data) = 3600) => expires_at' = 3540
        /\ EnsureChecks(p) =>
              /\ proc'[p].pc \in TokenWait <=> ~(access_token # NoToken /\ now < expires_at)
              /\ (access_token # NoToken /\ expires_at = 3540 /\ now = 3539)
                    => proc'[p].pc \notin TokenWait
              /\ (access_token # NoToken /\ expires_at = 3540 /\ now = 3540)
                    => proc'[p].pc \in TokenWait
    ]_vars

\* A login at 0 stored the expiry 3540 and, at 3540, _ensure_token
\* re-authenticates.
C4_Witness ==
    \E p, q \in Procs :
        /\ proc[q].op = "login" /\ proc[q].pc = "done" /\ proc[q].result = "ok"
        /\ proc[p].op = "ensure" /\ proc[p].pc \in TokenWait /\ proc[p].via = "ensure"
        /\ access_token # NoToken /\ expires_at = 3540 /\ now = 3540

C6_Frame(p) ==
    /\ ApiResp(p, "unauthorized401") =>
          /\ proc'[p].pc \in TokenWait /\ proc'[p].via = "retry"
          /\ proc'[p].nRefresh = 1 /\ proc'[p].nApi = 1
    /\ RetryResp(p, "unauthorized401") =>
          /\ proc'[p].pc = "done" /\ proc'[p].result \in Errors
          /\ proc'[p].nApi = 2 /\ proc'[p].nRefresh = 1
    /\ proc'[p].nApi <= 2 /\ proc'[p].nRefresh <= 1

\* async_refresh_token, called by the 401 branch, ends in this step.
RetryRefreshEnds(p) ==
    /\ proc[p].via = "retry" /\ proc[p].pc \in TokenWait
    /\ proc'[p].pc \notin TokenWait

\* The request is sent again, once, with the token just obtained.
SentAgain(p) ==
    /\ proc'[p].pc = "retry_wait"
    /\ proc'[p].nApi = 2 /\ proc'[p].nRefresh = 1
    /\ proc'[p].hdr = access_token'

\* C6 as stated: a 401 on async_get_device triggers exactly one
\* async_refresh_token and exactly one request sent again with the new token;
\* a second 401 fails the call without a third request.
C6_RetryOnceAfter401 ==
    [][\A p \in Procs :
        proc[p].op = "get_device" =>
            /\ C6_Frame(p)
            /\ RetryRefreshEnds(p) => SentAgain(p)
    ]_vars

\* C6, amended: the request is sent again, once and with the new token, when
\* that async_refresh_token returns; when it raises, its error ends the call
\* and nothing is sent again.
C6_RetryOnceAfterRefresh ==
    [][\A p \in Procs :
        proc[p].op = "get_device" =>
            /\ C6_Frame(p)
            /\ \A data \in TokenData :
                  (proc[p].via = "retry" /\ (LoginOk(p, data) \/ RefreshOk(p, data))) =>
                      SentAgain(p) /\ proc'[p].hdr = data.access_token
            /\ \A status \in TokenStatus :
                  (RetryRefreshEnds(p) /\ (LoginFail(p, status) \/ RefreshFail(p, status))) =>
                      /\ proc'[p].pc = "done" /\ proc'[p].result \in Errors
                      /\ proc'[p].nApi = 1
    ]_vars

\* async_get_device got a 401, refreshed, sent its request again and failed on
\* the second answer.
C6_Witness ==
    /\ proc[1].op = "get_device" /\ proc[1].pc = "done"
    /\ proc[1].nApi = 2 /\ proc[1].nRefresh = 1
    /\ proc[1].result = "FermaxConnectionError"


(***************************************************************************)
(* Properties of the retry helper, under SpecRetry and SpecRetryFair.      *)
(***************************************************************************)
Terminated == r_pc \in {"returned", "raised"}

\* The operation fails with an error the helper retries on each of its first
\* n invocations.
FailsFirst(n) == \A j \in 1..n : Retryable(script[j])

\* C7: when the wrapped operation fails twice with FermaxConnectionError or
\* FermaxAPIError and then succeeds, the helper invokes it exactly three
\* times, sleeps exactly twice, 1 s and then 2 s, and returns what the third
\* invocation returned, with no sleep after it.
C7_TwoFailuresThenSuccess ==
    (FailsFirst(2) /\ script[3] = "ok") =>
        /\ r_calls <= 3
        /\ Terminated =>
              /\ r_pc = "returned"
              /\ r_result = [kind |-> "ok", call |-> 3]
              /\ r_calls = 3
              /\ sleeps = <<1, 2>>

C7_Witness ==
    /\ FailsFirst(2)
    /\ script[3] = "ok"
    /\ r_pc = "returned"
    /\ r_calls = 3

\* C8: when the wrapped operation raises FermaxAuthError on its k-th
\* invocation (the earlier ones having failed with retried errors), that
\* error is raised at once: no sleep follows it and the operation is not
\* invoked again.
C8_AuthErrorNeverRetried ==
    \A k \in 1..MAX_RETRIES :
        (FailsFirst(k - 1) /\ script[k] = "FermaxAuthError") =>
            /\ r_calls <= k
            /\ Len(sleeps) <= k - 1
            /\ Terminated =>
                  /\ r_pc = "raised"
                  /\ r_result = [kind |-> "FermaxAuthError", call |-> k]
                  /\ Len(sleeps) = k - 1

C8_Witness ==
    /\ FailsFirst(1)
    /\ script[2] = "FermaxAuthError"
    /\ r_pc = "raised"
    /\ r_result.kind = "FermaxAuthError"

\* C9: the helper terminates; it invokes the operation at most 3 times and
\* sleeps at most twice; when the third invocation fails with
\* FermaxConnectionError or FermaxAPIError, that very error is raised, and no
\* third sleep precedes it.
C9_TerminatesWithinThreeAttempts ==
    /\ [](/\ r_calls <= 3
          /\ Len(sleeps) <= 2
          /\ (FailsFirst(3) /\ Terminated) =>
                /\ r_pc = "raised"
                /\ r_result = [kind |-> script[3], call |-> 3]
                /\ Len(sleeps) = 2)
    /\ <>Terminated

C9_Witness ==
    /\ FailsFirst(3)
    /\ r_pc = "raised"
    /\ r_calls = 3
    /\ Len(sleeps) = 2


(***************************************************************************)
(* Properties of the refresh cycle, under SpecCoord.                       *)
(***************************************************************************)
\* The entry _update_device builds in the running cycle for device d.
Fresh(d, e) ==
    /\ e.info = cycle
    /\ e.pairing.deviceId = d /\ e.pairing.listed = cycle
    /\ \E i \in 1..Len(pairings) : pairings[i] = e.pairing

\* The cycle listed A, B and C; the fetches of A and C succeeded and B's failed.
OnlyBFailed ==
    /\ Len(tasks) = 3
    /\ \A i \in 1..3 : tasks[i].device_id = DeviceOrder[i]
    /\ tasks[1].st = "fetched" /\ tasks[2].st = "failed" /\ tasks[3].st = "fetched"

\* C10: when a cycle that listed A, B and C, with only B's fetch failing,
\* publishes, the new snapshot holds the entries just fetched for A and C; it
\* holds for B the entry B had in the snapshot published before (that of the
\* last successful cycle), and no entry for B when that snapshot had none.
C10_FailedDeviceKeepsPriorSnapshotEntry ==
    [][(phase = "Merging" /\ OnlyBFailed /\ phase' # "Merging") =>
          /\ phase' = "Published"
          /\ \A d \in {"A", "C"} :
                /\ d \in DOMAIN coord_data'.devices
                /\ Fresh(d, coord_data'.devices[d])
          /\ IF "B" \in DOMAIN get_all_devices
             THEN /\ "B" \in DOMAIN coord_data'.devices
                  /\ coord_data'.devices["B"] = coord_data.devices["B"]
             ELSE "B" \notin DOMAIN coord_data'.devices
    ]_vars

\* The device ids the running (or last) cycle's pairing list names.
ListedIds == {pairings[i].deviceId : i \in 1..Len(pairings)} \ {NoId}

\* C11: after a successful cycle the published snapshot has no entry for a
\* device that the cycle's pairing list did not name, whatever earlier cycles
\* fetched.
C11_SnapshotOnlyListedDevices ==
    phase = "Published" => DOMAIN coord_data.devices \subseteq ListedIds

\* A cycle has published while the cache still holds a device that an earlier
\* cycle fetched and this cycle's list did not name.
C11_Witness ==
    /\ phase = "Published"
    /\ \E d \in DOMAIN devices : d \notin ListedIds /\ d \notin DOMAIN coord_data.devices

\* The messages of the UpdateFailed raised for an error of async_get_pairings.
ListingFailures == {"Connection error", "API error", "Unexpected error"}

\* C12: when async_get_pairings raises, the cycle ends Failed, no
\* _update_device task exists in that cycle, and the published snapshot and
\* the per-device cache are what they were.
C12_ListingFailureChangesNothing ==
    [][/\ \A err \in ListingErrors :
            ListingFails(err) => phase' = "Failed" /\ cycle_error' \in ListingFailures
       /\ (phase = "Listing" /\ cycle_error' \in ListingFailures) =>
            /\ phase' = "Failed"
            /\ tasks = <<>> /\ tasks' = <<>>
            /\ coord_data' = coord_data
            /\ devices' = devices
    ]_vars

\* A later cycle failed on its listing while an earlier cycle's snapshot is
\* still published.
C12_Witness ==
    /\ phase = "Failed"
    /\ cycle_error = "Connection error"
    /\ tasks = <<>>
    /\ coord_data.published
    /\ DOMAIN devices # {}

C14_NeverPublishesEmptyMap ==
    /\ [](coord_data.published => DOMAIN coord_data.devices # {})
    /\ [][/\ (phase = "Merging" /\ DOMAIN Merged(tasks).devices_data = {}) =>
                phase' \in {"Merging", "Failed"}
          /\ (phase' = "Failed" /\ cycle_error' = "No devices could be updated") =>
                coord_data' = coord_data
       ]_vars

\* Every fetch of a cycle failed with nothing cached for the devices listed,
\* and the cycle failed with an earlier snapshot still published.
C14_Witness ==
    /\ phase = "Failed"
    /\ cycle_error = "No devices could be updated"
    /\ Len(tasks) > 0
    /\ coord_data.published

\* C15: a failed fetch ends neither the cycle nor another device's fetch;
\* every listed device whose own fetch succeeded is in the published snapshot
\* with the entry just fetched, whichever other fetches failed, and the cycle
\* raises no error.
C15_FailureIsolatedPerDevice ==
    [][/\ phase = "FanningOut" =>
            /\ phase' \in {"FanningOut", "Merging"}
            /\ \A i \in 1..Len(tasks) :
                  (tasks[i].st # "failed" /\ tasks'[i].st = "failed") =>
                      \A j \in 1..Len(tasks) : j # i => tasks'[j] = tasks[j]
       /\ (phase = "Merging" /\ phase' # "Merging") =>
            \A i \in 1..Len(tasks) :
                tasks[i].st = "fetched" =>
                    /\ phase' = "Published" /\ cycle_error' = "none"
                    /\ tasks[i].device_id \in DOMAIN coord_data'.devices
                    /\ coord_data'.devices[tasks[i].device_id] = Entry(tasks[i])
                    /\ Fresh(tasks[i].device_id, Entry(tasks[i]))
    ]_vars

\* A cycle has published the fresh entry of one device although the fetch of
\* another listed device failed.
C15_Witness ==
    /\ phase = "Published"
    /\ \E i, j \in 1..Len(tasks) :
          /\ tasks[i].st = "failed"
          /\ tasks[i].device_id \notin DOMAIN coord_data.devices
          /\ tasks[j].st = "fetched"
          /\ coord_data.devices[tasks[j].device_id] = Entry(tasks[j])

\* A client call of one of the cycle's tasks is awaited.
InFlight == \E i \in 1..Len(tasks) : tasks[i].st \in {"get_device", "get_services"}

\* C16: the snapshot and the cache change only when no fetch of the cycle is
\* in flight any more, and no cycle is Published while one of its fetches is.
C16_PublishesAfterAllFetches ==
    /\ [](phase \in {"Merging", "Published"} => ~InFlight)
    /\ [][(coord_data' # coord_data \/ devices' # devices) =>
              phase = "Merging" /\ ~InFlight]_vars

\* One fetch of the cycle is done and another still in flight: nothing of the
\* cycle is published or cached yet.
C16_Witness ==
    /\ phase = "FanningOut"
    /\ \E i, j \in 1..Len(tasks) :
          /\ tasks[i].st = "fetched"
          /\ tasks[j].st = "get_services"
          /\ \A d \in DOMAIN devices : devices[d].info < cycle
    /\ coord_data.published

\* C17: what get_all_devices and get_device_data return changes only in the
\* step in which a cycle publishes, and then at once to the whole merged map
\* of that cycle (every fetched device in it); at all other steps readers see
\* the snapshot published before, or nothing before the first success, and
\* the two readers agree.
C17_ReadersSeeWholeSnapshots ==
    [][/\ get_all_devices' # get_all_devices =>
            /\ phase = "Merging" /\ phase' = "Published"
            /\ get_all_devices' = Merged(tasks).devices_data
            /\ \A i \in 1..Len(tasks) :
                  tasks[i].st = "fetched" =>
                      /\ tasks[i].device_id \in DOMAIN get_all_devices'
                      /\ get_all_devices'[tasks[i].device_id] = Entry(tasks[i])
       /\ phase' # "Published" => get_all_devices' = get_all_devices
       /\ cycle' = 1 /\ phase' # "Published" => get_all_devices' = EmptyMap
       /\ \A d \in DeviceIds :
             get_device_data(d)' = IF d \in DOMAIN get_all_devices'
                                   THEN get_all_devices'[d] ELSE NoEntry
    ]_vars

\* The gather of a cycle is done with newer data for a device while readers
\* still get the entry of the snapshot published before.
C17_Witness ==
    /\ phase = "Merging"
    /\ \E i \in 1..Len(tasks) :
          /\ tasks[i].st = "fetched"
          /\ tasks[i].device_id \in DOMAIN get_all_devices
          /\ get_device_data(tasks[i].device_id).info < cycle
          /\ get_device_data(tasks[i].device_id) = get_all_devices[tasks[i].device_id]


(***************************************************************************)
(* Properties of async_open_door, under SpecDoor.                          *)
(***************************************************************************)
IsPrefix(a, b) == Len(a) <= Len(b) /\ \A i \in 1..Len(a) : a[i] = b[i]

\* async_open_door(d, k) is called in this step.
Opens(d, k) == door.pc = "idle" /\ door'.device_id = d /\ door'.door_key = k

\* Consumers see device d with a door k whose accessId is complete.
DoorPublished(d, k) ==
    /\ d \in DOMAIN get_all_devices
    /\ k \in DOMAIN get_all_devices[d].pairing.accessDoorMap
    /\ ~Incomplete(get_all_devices[d].pairing.accessDoorMap[k])

\* C18: async_open_door(d, k), for a device d that consumers see with a door
\* k carrying block, subblock and number, calls the client's async_open_door
\* with d and exactly these three values; the call is made once; when it
\* succeeded, async_request_refresh is called once, after it.
C18_OpenDoorCallsClientThenRefresh ==
    /\ [](/\ IsPrefix(door.events, <<"open_door", "request_refresh">>)
          /\ (door.pc = "done" /\ door.result = "ok") =>
                door.events = <<"open_door", "request_refresh">>)
    /\ [][/\ \A d \in DeviceIds, k \in DoorKeys :
                (Opens(d, k) /\ DoorPublished(d, k)) =>
                    LET aid == get_all_devices[d].pairing.accessDoorMap[k] IN
                    /\ door'.pc = "open_door"
                    /\ door'.events = <<"open_door">>
                    /\ door'.args = [device_id |-> d, block |-> aid.block,
                                     subblock |-> aid.subblock, number |-> aid.number]
          /\ OpenDoorAnswer("ok") =>
                /\ door'.events = <<"open_door", "request_refresh">>
                /\ door'.args = door.args
          /\ door.pc \in {"open_door", "request_refresh"} => door'.args = door.args
       ]_vars

\* A door of a device that consumers see was opened and the refresh requested.
C18_Witness ==
    /\ door.pc = "done" /\ door.result = "ok"
    /\ door.events = <<"open_door", "request_refresh">>
    /\ DoorPublished(door.device_id, door.door_key)
    /\ door.args.number = get_all_devices[door.device_id].pairing.accessDoorMap[door.door_key].number

\* C19: async_open_door for a device that the last published snapshot does
\* not hold (a device never fetched, or one that an earlier cycle fetched and
\* later cycles no longer listed) raises the not-found error and sends nothing.
C19_UnpublishedDeviceNotFound ==
    [][\A d \in DeviceIds, k \in DoorKeys :
          (Opens(d, k) /\ d \notin DOMAIN get_all_devices) =>
              /\ door'.pc = "done"
              /\ door'.result = "ValueError: device not found"
              /\ door'.events = <<>>
    ]_vars

\* C20: async_open_door(d, k) for a device d that consumers see raises the
\* door-not-found error when k is no key of d's door map, and the
\* invalid-configuration error when block, subblock or number is missing from
\* the door's accessId; in both cases nothing is sent, no refresh is
\* requested, and snapshot and cache are unchanged.
C20_BadDoorSendsNothing ==
    [][\A d \in DeviceIds, k \in DoorKeys :
          (Opens(d, k) /\ d \in DOMAIN get_all_devices) =>
              LET dm == get_all_devices[d].pairing.accessDoorMap
                  Raises(msg) ==
                      /\ door'.pc = "done" /\ door'.result = msg
                      /\ door'.events = <<>>
                      /\ UNCHANGED coordVars
              IN  /\ k \notin DOMAIN dm => Raises("ValueError: door not found")
                  /\ (k \in DOMAIN dm /\ (\/ dm[k].block = Absent
                                         \/ dm[k].subblock = Absent
                                         \/ dm[k].number = Absent)) =>
                        Raises("ValueError: invalid door configuration")
    ]_vars

\* A door whose accessId lacks a field was asked for, on a device that
\* consumers see: the call raised and sent nothing.
C20_Witness ==
    /\ door.pc = "done"
    /\ door.result = "ValueError: invalid door configuration"
    /\ door.events = <<>>
    /\ door.device_id \in DOMAIN get_all_devices
    /\ door.door_key \in DOMAIN get_all_devices[door.device_id].pairing.accessDoorMap
    /\ get_all_devices[door.device_id].pairing.accessDoorMap[door.door_key].number = Absent

\* The errors the client's async_open_door may raise.
OpenDoorErrors == OpenDoorOutcomes \ {"ok"}

\* C21: when the client's async_open_door raises, async_open_door raises that
\* same error; the client is not called again and no refresh is requested.
C21_ClientFailurePropagates ==
    /\ [][\A out \in OpenDoorErrors :
             OpenDoorAnswer(out) =>
                 /\ door'.pc = "done" /\ door'.result = out
                 /\ door'.events = <<"open_door">>
                 /\ UNCHANGED coordVars
       ]_vars
    /\ []((door.pc = "done" /\ door.result \in OpenDoorErrors) =>
              door.events = <<"open_door">>)

\* The client's call failed and its error ended async_open_door.
C21_Witness ==
    /\ door.pc = "done"
    /\ door.result = "FermaxAPIError"
    /\ door.events = <<"open_door">>

\* C22: once the client's async_open_door has succeeded, async_open_door
\* ends without error, also when the refresh it asked for has failed.
C22_RefreshFailureKeepsSuccess ==
    /\ [][RequestRefreshReturns =>
             /\ door'.pc = "done" /\ door'.result = "ok"
             /\ door'.events = <<"open_door", "request_refresh">>
       ]_vars
    /\ []((door.pc = "done" /\ Len(door.events) = 2) => door.result = "ok")

\* The door was opened, the refresh cycle that followed failed, and
\* async_open_door returned without error.
C22_Witness ==
    /\ door.pc = "done"
    /\ door.result = "ok"
    /\ door.refresh = "Failed"


\* C23: async_get_services never propagates an error: every finished call
\* returned the service list or the empty list.
C23_ServicesNeverRaises ==
    (proc[1].op = "get_services" /\ proc[1].pc = "done")
        => proc[1].result \in {"ok", "empty_list"}


\* C24: async_login fails with FermaxAuthError on every non-200 answer of the
\* token endpoint and with FermaxConnectionError on every network or timeout
\* failure; no other error leaves it.
C24_LoginErrorKinds ==
    [][\A p \in Procs, status \in TokenStatus :
          (proc[p].op = "login" /\ LoginFail(p, status)) =>
              proc'[p].result = IF status = "rejected403"
                                THEN "FermaxAuthError"
                                ELSE "FermaxConnectionError"
      ]_vars


(***************************************************************************)
(* Properties of the client's async_open_door, under SpecOpenDoor.         *)
(***************************************************************************)
\* C25: async_open_door raises FermaxAPIError for every failure that is not an
\* authentication failure: a first answer with a status >= 400 other than
\* 401, any failing answer to the request sent again (a second 401 included),
\* a network error, a timeout.
C25_OpenDoorFailuresAreAPIError ==
    [][proc[1].op = "open_door" =>
          /\ \A status \in {"error500", "client_error", "timeout"} :
                ApiResp(1, status) => proc'[1].result = "FermaxAPIError"
          /\ \A status \in ApiStatus \ {"ok200"} :
                RetryResp(1, status) => proc'[1].result = "FermaxAPIError"
      ]_vars

\* C29: one call of async_open_door sends the POST at most twice; the second
\* POST is sent only in the step in which the async_refresh_token called for a
\* 401 on the first POST returns; a first POST answered otherwise ends the
\* call.
C29_OpenDoorPostAtMostTwice ==
    /\ [](proc[1].op = "open_door" => proc[1].nApi <= 2 /\ proc[1].nRefresh <= 1)
    /\ [][proc'[1].op = "open_door" =>
            /\ proc'[1].nApi > proc[1].nApi =>
                  \/ proc[1].via # "retry" /\ proc[1].nApi = 0 /\ proc'[1].nApi = 1
                  \/ /\ proc[1].via = "retry" /\ proc[1].nRefresh = 1
                     /\ proc[1].nApi = 1 /\ proc'[1].nApi = 2
                     /\ \E data \in TokenData : LoginOk(1, data) \/ RefreshOk(1, data)
            /\ ApiResp(1, "unauthorized401") =>
                  proc'[1].via = "retry" /\ proc'[1].nRefresh = 1 /\ proc'[1].nApi = 1
            /\ \A status \in ApiStatus \ {"unauthorized401"} :
                  ApiResp(1, status) => proc'[1].pc = "done" /\ proc'[1].nApi = 1
            /\ \A status \in ApiStatus :
                  RetryResp(1, status) => proc'[1].pc = "done" /\ proc'[1].nApi = 2
       ]_vars

\* async_open_door got a 401, refreshed the token and its second POST was
\* accepted.
C29_Witness ==
    /\ proc[1].op = "open_door" /\ proc[1].pc = "done" /\ proc[1].result = "ok"
    /\ proc[1].nApi = 2 /\ proc[1].nRefresh = 1


(***************************************************************************)
(* Properties of async_setup_entry, under SpecSetup.                       *)
(***************************************************************************)
\* C26: when the login of async_setup_entry fails, an authentication failure
\* ends the setup with ConfigEntryAuthFailed and a connectivity failure with
\* ConfigEntryNotReady, never the other way round (validate_credentials keeps
\* the two apart as well); in both cases no coordinator was created and no
\* refresh cycle ever runs.
C26_SetupEscalatesLoginFailure ==
    /\ [][\A status \in TokenStatus :
            SetupLoginFail(status) =>
                /\ setup'.pc = "done" /\ ~setup'.coordinator
                /\ setup'.outcome = "ConfigEntryAuthFailed" <=> status = "rejected403"
                /\ setup'.outcome = "ConfigEntryNotReady" <=> status # "rejected403"
                /\ validate_credentials(LoginError(status)) = "invalid_auth"
                      <=> status = "rejected403"
         ]_vars
    /\ []((setup.pc = "done" /\ ~setup.coordinator) =>
              /\ setup.outcome \in {"ConfigEntryAuthFailed", "ConfigEntryNotReady"}
              /\ cycle = 0 /\ phase = "Idle" /\ coord_data = NoData)
    /\ [](setup.outcome = "ConfigEntryAuthFailed" => ~setup.coordinator)

\* The token endpoint rejected the login of async_setup_entry.
C26_Witness ==
    /\ setup.pc = "done" /\ setup.outcome = "ConfigEntryAuthFailed"
    /\ proc[1].result = "FermaxAuthError"


\* C27: a FermaxConnectionError of a client call made by a refresh cycle is
\* reported to the cycle only after _retry_with_backoff invoked the call
\* MAX_RETRIES times, sleeping 1 s and 2 s in between.
C27_ConnectionErrorRetried ==
    [][(\/ ListingFails("FermaxConnectionError")
        \/ \E i \in 1..Len(tasks) : DeviceAnswer(i, "FermaxConnectionError"))
          => /\ r_calls' = MAX_RETRIES
             /\ sleeps' = <<INITIAL_RETRY_DELAY, 2 * INITIAL_RETRY_DELAY>>
      ]_vars


\* The steps between the phases of a refresh cycle.
PhaseSteps ==
    ({"Idle", "Published", "Failed"} \X {"Listing"})
        \cup ({"Listing"} \X {"FanningOut", "Failed"})
        \cup ({"FanningOut"} \X {"Merging"})
        \cup ({"Merging"} \X {"Published", "Failed"})

\* C28: a refresh cycle passes its phases in the order Idle, Listing,
\* FanningOut, Merging; no per-device fetch is awaited before the cycle's
\* async_get_pairings returned; and when every awaited call ends, each started
\* cycle ends Published or Failed.
C28_PhasesInOrderAndCycleEnds ==
    /\ [][phase' # phase => <<phase, phase'>> \in PhaseSteps]_vars
    /\ [][cycle' # cycle => cycle' = cycle + 1 /\ phase' = "Listing" /\ tasks' = <<>>]_vars
    /\ [][(phase' = "Listing" /\ phase # "Listing") => cycle' # cycle]_vars
    /\ [](phase \in {"Idle", "Listing"} => tasks = <<>>)
    /\ [](InFlight => phase = "FanningOut")
    /\ phase = "Listing" ~> phase \in {"Published", "Failed"}

\* The second cycle went through the fetches of two devices and published.
C28_Witness == cycle = 2 /\ phase = "Published" /\ Len(tasks) = 2


\* The pairings of the cycle's list that carry no device id.
Blank == {j \in 1..Len(pairings) : pairings[j].deviceId = NoId}

TokenState == <<access_token, refresh_token, expires_at>>

\* The token request coroutine p awaits fails in this step: its call ends with
\* an error, or its refresh grant is given up for a login.
TokenRequestFails(p) ==
    /\ proc[p].pc \in TokenWait
    /\ \/ proc'[p].pc = "done" /\ proc'[p].result \in Errors
       \/ proc[p].pc = "refresh_wait" /\ proc'[p].pc = "login_wait"

\* C31: a failing login or refresh grant leaves access token, refresh token
\* and expiry as they were: only a token request answered with 200 writes
\* them.  So a refresh token that was rejected, the login after it failing as
\* well, is still held, and the next async_refresh_token sends it again.
C31_FailedTokenCallKeepsState ==
    /\ [][\A p \in Procs : TokenRequestFails(p) => TokenState' = TokenState]_vars
    /\ [][TokenState' # TokenState =>
             \E p \in Procs :
                 /\ proc[p].pc \in TokenWait
                 /\ proc'[p].pc \notin TokenWait
                 /\ proc'[p].result \notin Errors
         ]_vars
    /\ [][\A p \in Procs :
             (proc[p].pc = "idle" /\ proc'[p].op = "refresh" /\ refresh_token # NoToken) =>
                 proc'[p].pc = "refresh_wait" /\ proc'[p].nGrant = 1
         ]_vars

\* The first async_refresh_token had its refresh grant rejected and its login
\* failed; the refresh token is still held and the second async_refresh_token
\* has sent it again.
C31_Witness ==
    /\ proc[1].op = "refresh" /\ proc[1].pc = "done"
    /\ proc[1].result = "FermaxAuthError"
    /\ proc[1].nGrant = 1 /\ proc[1].nLogin = 1
    /\ refresh_token # NoToken
    /\ proc[2].op = "refresh" /\ proc[2].pc = "refresh_wait" /\ proc[2].nGrant = 1


\* A token request of coroutine p is answered with 200 and lifetime e in this step.
StoresLifetime(p, e) ==
    \E data \in ShortLivedData :
        data.expires_in = e /\ (LoginOk(p, data) \/ RefreshOk(p, data))

\* C32: a token stored with a reported lifetime of 60 s or less has its expiry
\* at or before the instant it was issued, and stays expired as long as it is
\* held; every API method that passes _ensure_token while such a token is held
\* sends a token request before its API request.
C32_ShortLivedTokenNeverValid ==
    /\ [][\A p \in Procs, e \in ShortLifetimes :
             (StoresLifetime(p, e) /\ e <= 60) =>
                 /\ expires_at' <= now
                 /\ ~(access_token' # NoToken /\ now' < expires_at')
         ]_vars
    /\ [][(expires_at <= now /\ expires_at' = expires_at) => expires_at' <= now']_vars
    /\ [][\A p \in Procs :
             (EnsureChecks(p) /\ expires_at <= now) =>
                 /\ proc'[p].pc \in TokenWait /\ proc'[p].via = "ensure"
                 /\ proc'[p].nApi = 0
                 /\ proc'[p].nLogin + proc'[p].nGrant = 1
         ]_vars

\* A login stored a token of lifetime 30 s at time 0; the async_get_device
\* called next awaits a token request of _ensure_token.
C32_Witness ==
    /\ proc[1].op = "login" /\ proc[1].pc = "done" /\ proc[1].result = "ok"
    /\ access_token # NoToken /\ expires_at = 0 - 30
    /\ proc[2].op = "get_device" /\ proc[2].pc \in TokenWait /\ proc[2].via = "ensure"
    /\ proc[2].nApi = 0


(***************************************************************************)
(* Properties of _update_device, under SpecCoord and SpecServicesDown.     *)
(***************************************************************************)
\* C33: within a cycle async_get_services is requested for a device only in
\* the step in which the cycle's async_get_device for that device succeeds; a
\* task whose async_get_device failed stays failed and never asks for the
\* services.
C33_ServicesOnlyAfterDevice ==
    /\ [](\A i \in 1..Len(tasks) :
             /\ tasks[i].st = "get_services" => tasks[i].info = cycle
             /\ tasks[i].st \in {"get_device", "failed"} =>
                   tasks[i].info = 0 /\ tasks[i].services = "none")
    /\ [][\A i \in 1..Len(tasks') :
             /\ (tasks'[i].st = "get_services" /\ (i > Len(tasks) \/ tasks[i].st # "get_services"))
                   => /\ i <= Len(tasks)
                      /\ tasks[i].st = "get_device"
                      /\ tasks'[i].info = cycle
             /\ (i <= Len(tasks) /\ tasks[i].st = "failed") => tasks'[i] = tasks[i]
         ]_vars

\* One device's async_get_device failed; its task asks for nothing more while
\* another task awaits its services.
C33_Witness ==
    /\ phase = "FanningOut"
    /\ \E i, j \in 1..Len(tasks) :
          /\ tasks[i].st = "failed" /\ tasks[i].services = "none"
          /\ tasks[j].st = "get_services"

\* C34: an error of async_get_services, raised for a device whose
\* async_get_device succeeded, fails neither the task nor the cycle: the task
\* ends fetched, and the entry it returns, which the cycle publishes, has the
\* device info fetched in this cycle, this cycle's pairing and no services.
C34_ServicesErrorAbsorbed ==
    /\ [][\A i \in 1..Len(tasks), out \in ServicesErrors :
             ServicesAnswer(i, out) =>
                 /\ tasks'[i].st = "fetched"
                 /\ Entry(tasks'[i]) = [info |-> cycle, pairing |-> tasks[i].pairing,
                                        services |-> "empty"]
                 /\ tasks[i].pairing.listed = cycle
                 /\ phase' \in {"FanningOut", "Merging"}
                 /\ cycle_error' = "none"
         ]_vars
    /\ [][(phase = "Merging" /\ phase' # "Merging") =>
             \A i \in 1..Len(tasks) :
                 tasks[i].st = "fetched" =>
                     /\ phase' = "Published"
                     /\ tasks[i].device_id \in DOMAIN get_all_devices'
                     /\ get_all_devices'[tasks[i].device_id].services = "empty"
                     /\ get_all_devices'[tasks[i].device_id].info = cycle
         ]_vars

\* A cycle has published a device whose async_get_services raised: the entry
\* is this cycle's, without services.
C34_Witness ==
    /\ phase = "Published" /\ cycle = 2
    /\ \E i \in 1..Len(tasks) :
          /\ tasks[i].st = "fetched"
          /\ get_all_devices[tasks[i].device_id] =
                [info |-> 2, pairing |-> tasks[i].pairing, services |-> "empty"]


(***************************************************************************)
(* Snapshot and cache, under SpecDoor.                                     *)
(***************************************************************************)
\* C35: every entry of the published snapshot is the entry that the cache
\* async_open_door reads holds for the same device, at every moment between
\* the steps of refresh cycles and door-open calls; so a door-open for a
\* published device takes its door from the pairing consumers see.
C35_SnapshotAgreesWithCache ==
    /\ [](\A d \in DOMAIN get_all_devices :
             d \in DOMAIN KnownDevices /\ KnownDevices[d] = get_all_devices[d])
    /\ [][\A d \in DeviceIds, k \in DoorKeys :
             (Opens(d, k) /\ d \in DOMAIN get_all_devices /\ door'.pc = "open_door") =>
                 /\ k \in DOMAIN get_all_devices[d].pairing.accessDoorMap
                 /\ door'.args.block = get_all_devices[d].pairing.accessDoorMap[k].block
                 /\ door'.args.subblock = get_all_devices[d].pairing.accessDoorMap[k].subblock
                 /\ door'.args.number = get_all_devices[d].pairing.accessDoorMap[k].number
         ]_vars

\* After two cycles the snapshot holds an entry kept from the first cycle,
\* the same as the cache's, and a door of that device was opened.
C35_Witness ==
    /\ phase = "Published" /\ cycle >= 2
    /\ door.pc = "done" /\ door.result = "ok"
    /\ door.device_id \in DOMAIN get_all_devices
    /\ get_all_devices[door.device_id].info < cycle
    /\ KnownDevices[door.device_id] = get_all_devices[door.device_id]


(***************************************************************************)
(* Authentication failures after setup, under SpecSetup.                   *)
(***************************************************************************)
\* The messages of the UpdateFailed a cycle raises (coordinator.py:73-85).
UpdateFailedMessages ==
    {"Connection error", "API error", "Unexpected error", "No devices could be updated"}

\* What a listing failure of the running cycle does, whatever its kind: the
\* cycle fails with an UpdateFailed, snapshot and cache stay, and the setup
\* does not end with ConfigEntryAuthFailed.
OrdinaryCycleFailure ==
    /\ phase' = "Failed"
    /\ cycle_error' \in UpdateFailedMessages
    /\ coord_data' = coord_data /\ devices' = devices
    /\ get_all_devices' = get_all_devices
    /\ setup'.outcome # "ConfigEntryAuthFailed"
    /\ setup.outcome = "loaded" => setup' = setup
    /\ setup.pc = "first_refresh" => setup'.outcome = "ConfigEntryNotReady"

\* C36: a FermaxAuthError raised while a cycle lists the pairings (the
\* re-login was rejected) fails the cycle with an UpdateFailed, as a
\* FermaxConnectionError does: the published snapshot stays and nothing is
\* raised that asks for new credentials.
C36_AuthErrorInCycleIsOrdinaryFailure ==
    /\ [][/\ ListingFails("FermaxAuthError") =>
                OrdinaryCycleFailure /\ cycle_error' = "API error"
          /\ ListingFails("FermaxConnectionError") =>
                OrdinaryCycleFailure /\ cycle_error' = "Connection error"
       ]_vars
    /\ [](cycle_error \in UpdateFailedMessages \cup {"none"})
    /\ [](setup.coordinator => setup.outcome # "ConfigEntryAuthFailed")

\* On a loaded entry a cycle failed on a rejected re-login while an earlier
\* snapshot is still published.
C36_Witness ==
    /\ setup.outcome = "loaded"
    /\ phase = "Failed" /\ cycle_error = "API error"
    /\ coord_data.published /\ DOMAIN get_all_devices # {}

=============================================================================
